---- MODULE Spec2Model ----
(***************************************************************************)
(* Triage dashboard (src/main.py): the PriorityQueue class, the diagnosis  *)
(* scoring block, the treatment slot kept in the Streamlit session state   *)
(* and the shortest-route function.                                        *)
(*                                                                         *)
(* Python values are modelled as follows: a heap entry                     *)
(* [adjusted_score, key, patient_info] is the tuple <<adj, key, info>>, a  *)
(* patient_info dict is a record, None is the record None, a Python list   *)
(* is a sequence (Python position p is TLA+ index p + 1).                  *)
(***************************************************************************)
EXTENDS Integers, Sequences, FiniteSets, TLC

VARIABLES
    heap,                           \* PriorityQueue.heap
    counter,                        \* PriorityQueue.counter
    mode,                           \* the radio button's selection
    current_patient_in_treatment,   \* st.session_state slot
    current_patient_coords,         \* st.session_state slot
    road_graph,                     \* the script's road_graph: what the cached loader returns
    session_road_graph,             \* st.session_state.road_graph (None: key absent)
    message,                        \* the status message the last run ended with
    op,                             \* the operation that ran last
    ret,                            \* what the last queue call returned
    hist,                           \* history: the arguments of every insert so far
    npop,                           \* history: pops that returned a patient
    route_result,                   \* what find_shortest_route_and_plot returned last
    answers,                        \* scoring block alone: the four answers
    diagnosis                       \* scoring block alone: its result

vars == <<heap, counter, mode, current_patient_in_treatment, current_patient_coords,
          road_graph, session_road_graph, message, op, ret, hist, npop, route_result,
          answers, diagnosis>>

queueVars == <<heap, counter, op, ret, hist, npop>>
sessionVars == <<mode, current_patient_in_treatment, current_patient_coords,
                 road_graph, session_road_graph, message, route_result>>
scoringVars == <<answers, diagnosis>>

-----------------------------------------------------------------------------
(* Bounds and input sets *)

MaxInserts == 3

None == [none |-> TRUE]

FIFO == "FIFO"      \* '큐 (선입선출)'
LIFO == "LIFO"      \* '스택 (후입선출)'
Modes == {FIFO, LIFO}

\* patient names typed into the text input; "" is the empty input
Names == {"", "kim"}

\* the questionnaire answers offered to the queue and page models, as the
\* index of the selected option of each selectbox
Answers == { <<0, 3, 0, 0>>, <<3, 3, 3, 3>> }

\* the positions the two origin sliders are set to, on an integer grid
Lats == {0}
Lons == {1}

-----------------------------------------------------------------------------
(* Diagnosis scoring block *)

Levels == 0..3

q1_weight(a) == IF a = 1 THEN 3 ELSE IF a = 2 THEN 7 ELSE IF a = 3 THEN 15 ELSE 0
q2_weight(a) == IF a = 1 THEN 4 ELSE IF a = 2 THEN 9 ELSE IF a = 3 THEN 20 ELSE 0
q3_weight(a) == IF a = 1 THEN 2 ELSE IF a = 2 THEN 6 ELSE IF a = 3 THEN 12 ELSE 0
q4_weight(a) == IF a = 1 THEN 3 ELSE IF a = 2 THEN 8 ELSE IF a = 3 THEN 18 ELSE 0

current_priority_score(q) ==
    q1_weight(q[1]) + q2_weight(q[2]) + q3_weight(q[3]) + q4_weight(q[4])

\* faulty variant: the top threshold tested with > instead of >=
current_severity_level_strict(score) ==
    IF score > 35 THEN "very_urgent"
    ELSE IF score >= 20 THEN "urgent"
    ELSE IF score >= 10 THEN "severe"
    ELSE IF score >= 3 THEN "moderate"
    ELSE "mild"

current_severity_level(score) ==
    IF score >= 35 THEN "very_urgent"
    ELSE IF score >= 20 THEN "urgent"
    ELSE IF score >= 10 THEN "severe"
    ELSE IF score >= 3 THEN "moderate"
    ELSE "mild"

severity_scores ==
    [mild |-> 1, moderate |-> 3, severe |-> 5, urgent |-> 10, very_urgent |-> 20]

final_priority_score(level) ==
    IF level \in DOMAIN severity_scores THEN severity_scores[level] ELSE 1

classify(q) ==
    LET score == current_priority_score(q)
        level == current_severity_level(score)
    IN  [score |-> score, level |-> level, priority |-> final_priority_score(level)]

patient_info(name, q, lat, lon) ==
    [name |-> name, severity |-> classify(q).level, answers |-> q,
     score |-> classify(q).priority, lat |-> lat, lon |-> lon]

-----------------------------------------------------------------------------
(* heapq on lists of entries *)

\* list comparison entry1 < entry2: the first differing element decides.
\* Entries equal in score and key would go on to compare the patient dicts,
\* which Python cannot order; no operation below meets that case.
EntryLt(a, b) ==
    IF a[1] # b[1] THEN a[1] < b[1]
    ELSE IF a[2] # b[2] THEN a[2] < b[2]
    ELSE FALSE

RECURSIVE siftdown_loop(_, _, _, _)
siftdown_loop(h, newitem, startpos, pos) ==
    IF pos > startpos
    THEN LET parentpos == (pos - 1) \div 2
             parent == h[parentpos + 1]
         IN  IF EntryLt(newitem, parent)
             THEN siftdown_loop([h EXCEPT ![pos + 1] = parent], newitem, startpos, parentpos)
             ELSE [h EXCEPT ![pos + 1] = newitem]
    ELSE [h EXCEPT ![pos + 1] = newitem]

siftdown(h, startpos, pos) == siftdown_loop(h, h[pos + 1], startpos, pos)

RECURSIVE siftup_loop(_, _, _, _)
siftup_loop(h, newitem, startpos, pos) ==
    LET endpos == Len(h)
        childpos == 2 * pos + 1
        rightpos == childpos + 1
    IN  IF childpos < endpos
        THEN LET c == IF rightpos < endpos /\ ~EntryLt(h[childpos + 1], h[rightpos + 1])
                      THEN rightpos ELSE childpos
             IN  siftup_loop([h EXCEPT ![pos + 1] = h[c + 1]], newitem, startpos, c)
        ELSE siftdown([h EXCEPT ![pos + 1] = newitem], startpos, pos)

siftup(h, pos) == siftup_loop(h, h[pos + 1], pos, pos)

heappush(h, item) == siftdown(Append(h, item), 0, Len(h))

\* faulty variant: the head is read but the list is left as it was
heappop_keeps_item(h) == [item |-> h[1], heap |-> h]

\* heappop on a non-empty list: the item returned and the list left
heappop(h) ==
    LET lastelt == h[Len(h)]
        rest == SubSeq(h, 1, Len(h) - 1)
    IN  IF rest # <<>>
        THEN [item |-> h[1], heap |-> siftup([rest EXCEPT ![1] = lastelt], 0)]
        ELSE [item |-> lastelt, heap |-> rest]

\* faulty variant: the heap list is shown as stored, without sorting
sorted_as_stored(l) == l

\* sorted(list): a stable sort that only uses <
RECURSIVE sorted_insert(_, _)
sorted_insert(s, e) ==
    IF s = <<>> THEN <<e>>
    ELSE IF EntryLt(e, Head(s)) THEN <<e>> \o s
    ELSE <<Head(s)>> \o sorted_insert(Tail(s), e)

RECURSIVE sorted(_)
sorted(l) ==
    IF l = <<>> THEN <<>>
    ELSE sorted_insert(sorted(SubSeq(l, 1, Len(l) - 1)), l[Len(l)])

-----------------------------------------------------------------------------
(* class PriorityQueue: each method as the state it leaves and what it returns *)

\* faulty variant: the signs of the two modes exchanged
entry_key_swapped(c, queue_type) ==
    IF queue_type = FIFO THEN -c
    ELSE IF queue_type = LIFO THEN c
    ELSE -c

\* faulty variant: the key does not depend on the mode of the insert
entry_key_ignores_mode(c, queue_type) == c

\* faulty variant: the LIFO key taken from the counter less one
entry_key_lifo_shifted(c, queue_type) ==
    IF queue_type = FIFO THEN c
    ELSE IF queue_type = LIFO THEN -(c - 1)
    ELSE c

entry_key(c, queue_type) ==
    IF queue_type = FIFO THEN c
    ELSE IF queue_type = LIFO THEN -c
    ELSE c

\* faulty variant: the score stored without negation on a min-heap
insert_unnegated(h, c, info, priority_score, queue_type) ==
    LET adjusted_score == priority_score
        entry == <<adjusted_score, entry_key(c, queue_type), info>>
    IN  [heap |-> heappush(h, entry), counter |-> c + 1]

\* faulty variant: the counter is not advanced after the push
insert_no_advance(h, c, info, priority_score, queue_type) ==
    LET adjusted_score == -priority_score
        entry == <<adjusted_score, entry_key(c, queue_type), info>>
    IN  [heap |-> heappush(h, entry), counter |-> c]

insert(h, c, info, priority_score, queue_type) ==
    LET adjusted_score == -priority_score
        entry == <<adjusted_score, entry_key(c, queue_type), info>>
    IN  [heap |-> heappush(h, entry), counter |-> c + 1]

\* faulty variant: an empty queue answered with a placeholder patient and score 0
get_highest_priority_patient_placeholder(h) ==
    IF h = <<>>
    THEN [heap |-> h, ret |-> <<[name |-> "unknown"], 0>>]
    ELSE LET popped == heappop(h)
         IN  [heap |-> popped.heap, ret |-> <<popped.item[3], -popped.item[1]>>]

get_highest_priority_patient(h) ==
    IF h = <<>>
    THEN [heap |-> h, ret |-> <<None, None>>]
    ELSE LET popped == heappop(h)
         IN  [heap |-> popped.heap, ret |-> <<popped.item[3], -popped.item[1]>>]

is_empty(h) == ~(h # <<>>)

\* faulty variant: the last element of the list read instead of the first
peek_last(h) ==
    IF h = <<>>
    THEN [heap |-> h, ret |-> <<None, None>>]
    ELSE [heap |-> h, ret |-> <<h[Len(h)][3], -h[Len(h)][1]>>]

peek(h) ==
    IF h = <<>>
    THEN [heap |-> h, ret |-> <<None, None>>]
    ELSE [heap |-> h, ret |-> <<h[1][3], -h[1][1]>>]

get_all_patients_sorted(h) ==
    LET temp_heap == sorted(h)
    IN  [i \in 1..Len(temp_heap) |->
            [name |-> temp_heap[i][3].name,
             severity |-> temp_heap[i][3].severity,
             score |-> -temp_heap[i][1]]]

-----------------------------------------------------------------------------
(* Road graphs and the shortest-route function *)

\* a graph: its node ids, their (lat, lon) positions and its directed edges
\* <<u, v, length>>
\* the node positions shared by the two graphs below
NodePos == [n \in {1, 2, 3, 4} |->
              IF n = 1 THEN <<0, 0>> ELSE IF n = 2 THEN <<2, 0>>
              ELSE IF n = 3 THEN <<5, 0>> ELSE <<3, 2>>]

\* node 3 is reached from node 1 directly (length 9) or through nodes 2 and 4
\* (length 1 + 2 + 2); 1 -> 3 has a second, longer parallel edge
LineGraph ==
    [nodes |-> {1, 2, 3, 4},
     pos |-> NodePos,
     edges |-> { <<1, 3, 9>>, <<3, 1, 9>>, <<1, 2, 1>>, <<2, 1, 1>>, <<2, 4, 2>>,
                 <<4, 2, 2>>, <<4, 3, 2>>, <<3, 4, 2>>, <<1, 3, 11>> }]

\* the same nodes with node 1 cut off from the others
SplitGraph ==
    [nodes |-> {1, 2, 3, 4},
     pos |-> NodePos,
     edges |-> { <<2, 4, 2>>, <<4, 2, 2>>, <<4, 3, 2>>, <<3, 4, 2>>, <<3, 1, 9>> }]

EmptyGraph == [nodes |-> {}, pos |-> <<>>, edges |-> {}]

\* what load_road_network_from_osmnx can hand back: a graph, or None on failure
LoaderResults == {None, EmptyGraph, LineGraph, SplitGraph}

AJOU_HOSPITAL_COORDS == <<5, 0>>

\* bool(graph): None and a graph without nodes are false
graph_truthy(g) == g # None /\ g.nodes # {}

\* the script stores the loaded graph in the session only when it is truthy
store_road_graph(session, g) == IF graph_truthy(g) THEN g ELSE session

Dist2(p, lat, lon) == (p[1] - lat) * (p[1] - lat) + (p[2] - lon) * (p[2] - lon)

\* ox.distance.nearest_nodes on a graph with nodes
nearest_nodes(g, lon, lat) ==
    CHOOSE n \in g.nodes :
        \A m \in g.nodes :
            \/ Dist2(g.pos[n], lat, lon) < Dist2(g.pos[m], lat, lon)
            \/ Dist2(g.pos[n], lat, lon) = Dist2(g.pos[m], lat, lon) /\ n <= m

HasEdge(g, u, v) == \E e \in g.edges : e[1] = u /\ e[2] = v

\* the length of the shortest of the parallel edges u -> v
EdgeLength(g, u, v) ==
    CHOOSE l \in { e[3] : e \in { x \in g.edges : x[1] = u /\ x[2] = v } } :
        \A e \in g.edges : (e[1] = u /\ e[2] = v) => l <= e[3]

\* sequences of distinct nodes of length k
RECURSIVE NodeSeqs(_, _)
NodeSeqs(g, k) ==
    IF k = 0 THEN { <<>> }
    ELSE { Append(p, n) : p \in NodeSeqs(g, k - 1), n \in g.nodes } 

IsPath(g, p, s, t) ==
    /\ Len(p) >= 1
    /\ p[1] = s
    /\ p[Len(p)] = t
    /\ \A i, j \in 1..Len(p) : i # j => p[i] # p[j]
    /\ \A i \in 1..(Len(p) - 1) : HasEdge(g, p[i], p[i + 1])

Paths(g, s, t) ==
    { p \in UNION { NodeSeqs(g, k) : k \in 1..Cardinality(g.nodes) } : IsPath(g, p, s, t) }

RECURSIVE route_length(_, _)
route_length(g, route) ==
    IF Len(route) <= 1 THEN 0
    ELSE EdgeLength(g, route[1], route[2]) + route_length(g, Tail(route))

\* nx.shortest_path(graph, s, t, weight='length') where a path exists
shortest_path(g, s, t) ==
    LET candidates == Paths(g, s, t)
    IN  CHOOSE p \in candidates :
            \A r \in candidates : route_length(g, p) <= route_length(g, r)

\* faulty variant: no handler for nx.NetworkXNoPath, the generic handler takes it
find_shortest_route_and_plot_generic(graph, start_lat, start_lon, end_lat, end_lon) ==
    IF graph = None
    THEN [message |-> "graph_unavailable", ret |-> <<None, None>>, searched |-> FALSE]
    ELSE IF graph.nodes = {}
    THEN [message |-> "route_error", ret |-> <<None, None>>, searched |-> TRUE]
    ELSE LET origin_node == nearest_nodes(graph, start_lon, start_lat)
             destination_node == nearest_nodes(graph, end_lon, end_lat)
         IN  IF Paths(graph, origin_node, destination_node) = {}
             THEN [message |-> "route_error", ret |-> <<None, None>>, searched |-> TRUE]
             ELSE LET route == shortest_path(graph, origin_node, destination_node)
                  IN  [message |-> "route_ok",
                       ret |-> <<route, route_length(graph, route)>>,
                       searched |-> TRUE]

find_shortest_route_and_plot(graph, start_lat, start_lon, end_lat, end_lon) ==
    IF graph = None
    THEN [message |-> "graph_unavailable", ret |-> <<None, None>>, searched |-> FALSE]
    ELSE IF graph.nodes = {}
    THEN \* nearest_nodes raises on a graph without nodes: the generic handler
         [message |-> "route_error", ret |-> <<None, None>>, searched |-> TRUE]
    ELSE LET origin_node == nearest_nodes(graph, start_lon, start_lat)
             destination_node == nearest_nodes(graph, end_lon, end_lat)
         IN  IF Paths(graph, origin_node, destination_node) = {}
             THEN \* nx.NetworkXNoPath
                  [message |-> "no_path", ret |-> <<None, None>>, searched |-> TRUE]
             ELSE LET route == shortest_path(graph, origin_node, destination_node)
                  IN  [message |-> "route_ok",
                       ret |-> <<route, route_length(graph, route)>>,
                       searched |-> TRUE]

\* the route section's button handler
route_request(session_graph, coords) ==
    IF session_graph # None /\ graph_truthy(session_graph)
    THEN find_shortest_route_and_plot(session_graph, coords[1], coords[2],
                                      AJOU_HOSPITAL_COORDS[1], AJOU_HOSPITAL_COORDS[2])
    ELSE [message |-> "graph_unavailable", ret |-> <<None, None>>, searched |-> FALSE]

-----------------------------------------------------------------------------
(* The queue object driven through its methods *)

InitQueue ==
    /\ heap = <<>>
    /\ counter = 0
    /\ op = "init"
    /\ ret = <<None, None>>
    /\ hist = <<>>
    /\ npop = 0

\* no route was asked for in the last run
no_route == [ret |-> <<None, None>>, searched |-> FALSE]

InitSession ==
    /\ mode = FIFO
    /\ current_patient_in_treatment = None
    /\ current_patient_coords = None
    /\ road_graph \in LoaderResults
    /\ session_road_graph = store_road_graph(None, road_graph)
    /\ message = "none"
    /\ route_result = no_route

InitScoring ==
    /\ answers = None
    /\ diagnosis = None

QueueInit == InitQueue /\ InitSession /\ InitScoring /\ road_graph = None

QInsert(name, q, queue_type) ==
    /\ counter < MaxInserts
    /\ LET info == patient_info(name, q, 0, 1)
           after == insert(heap, counter, info, info.score, queue_type)
       IN  /\ heap' = after.heap
           /\ counter' = after.counter
           /\ hist' = Append(hist, [info |-> info, score |-> info.score, mode |-> queue_type])
    /\ op' = "insert"
    /\ ret' = <<None, None>>
    /\ UNCHANGED <<npop, sessionVars, scoringVars>>

QPop ==
    /\ LET after == get_highest_priority_patient(heap)
       IN  /\ heap' = after.heap
           /\ ret' = after.ret
           /\ npop' = IF after.ret[1] # None THEN npop + 1 ELSE npop
    /\ op' = "pop"
    /\ UNCHANGED <<counter, hist, sessionVars, scoringVars>>

QPeek ==
    /\ LET after == peek(heap)
       IN  /\ heap' = after.heap
           /\ ret' = after.ret
    /\ op' = "peek"
    /\ UNCHANGED <<counter, hist, npop, sessionVars, scoringVars>>

QSnapshot ==
    /\ ret' = get_all_patients_sorted(heap)
    /\ op' = "snapshot"
    /\ UNCHANGED <<heap, counter, hist, npop, sessionVars, scoringVars>>

QueueNext ==
    \/ \E name \in Names \ {""}, q \in Answers, queue_type \in Modes :
          QInsert(name, q, queue_type)
    \/ QPop
    \/ QPeek
    \/ QSnapshot

QueueSpec == QueueInit /\ [][QueueNext]_vars

-----------------------------------------------------------------------------
(* The page: every action is one user event and the script runs it causes *)

\* the queue status section of a run in which no button of it was pressed:
\* an empty queue clears the treatment slot
slot_after_run(h, slot) == IF ~is_empty(h) THEN slot ELSE None

Init == InitQueue /\ InitSession /\ InitScoring

\* a run caused by a widget outside the simulation sections
Rerun ==
    /\ session_road_graph' = store_road_graph(session_road_graph, road_graph)
    /\ current_patient_in_treatment' = slot_after_run(heap, current_patient_in_treatment)
    /\ current_patient_coords' = slot_after_run(heap, current_patient_coords)
    /\ message' = "none"
    /\ op' = "rerun"
    /\ ret' = <<None, None>>
    /\ route_result' = no_route
    /\ UNCHANGED <<heap, counter, hist, npop, mode, road_graph, scoringVars>>

\* the radio button is set to m
SelectMode(m) ==
    /\ m # mode
    /\ mode' = m
    /\ session_road_graph' = store_road_graph(session_road_graph, road_graph)
    /\ current_patient_in_treatment' = slot_after_run(heap, current_patient_in_treatment)
    /\ current_patient_coords' = slot_after_run(heap, current_patient_coords)
    /\ message' = "none"
    /\ op' = "select_mode"
    /\ ret' = <<None, None>>
    /\ route_result' = no_route
    /\ UNCHANGED <<heap, counter, hist, npop, road_graph, scoringVars>>

\* the diagnosis button is pressed with the form filled in as given
SubmitDiagnosis(patient_name, q, patient_start_lat, patient_start_lon) ==
    /\ session_road_graph' = store_road_graph(session_road_graph, road_graph)
    /\ IF patient_name # ""
       THEN /\ counter < MaxInserts
            /\ LET info == patient_info(patient_name, q, patient_start_lat, patient_start_lon)
                   after == insert(heap, counter, info, info.score, mode)
               IN  /\ heap' = after.heap
                   /\ counter' = after.counter
                   /\ hist' = Append(hist, [info |-> info, score |-> info.score, mode |-> mode])
                   \* st.rerun(): the next run shows the queue
                   /\ current_patient_in_treatment' =
                          slot_after_run(after.heap, current_patient_in_treatment)
                   /\ current_patient_coords' =
                          slot_after_run(after.heap, current_patient_coords)
            /\ message' = "added"
       ELSE /\ message' = "name_required"
            /\ current_patient_in_treatment' = slot_after_run(heap, current_patient_in_treatment)
            /\ current_patient_coords' = slot_after_run(heap, current_patient_coords)
            /\ UNCHANGED <<heap, counter, hist>>
    /\ op' = "submit"
    /\ ret' = <<None, None>>
    /\ route_result' = no_route
    /\ UNCHANGED <<npop, mode, road_graph, scoringVars>>

\* the start-treatment button, shown while the queue is not empty
StartTreatment ==
    /\ ~is_empty(heap)
    /\ session_road_graph' = store_road_graph(session_road_graph, road_graph)
    /\ LET after == get_highest_priority_patient(heap)
           processed_patient == after.ret[1]
           slot == IF processed_patient # None THEN processed_patient ELSE None
           coords == IF processed_patient # None
                     THEN <<processed_patient.lat, processed_patient.lon>>
                     ELSE None
       IN  /\ heap' = after.heap
           /\ ret' = after.ret
           /\ npop' = IF processed_patient # None THEN npop + 1 ELSE npop
           /\ message' = IF processed_patient # None THEN "treating" ELSE "no_patient"
           \* st.rerun(): the next run's queue status section
           /\ current_patient_in_treatment' = slot_after_run(after.heap, slot)
           /\ current_patient_coords' = slot_after_run(after.heap, coords)
    /\ op' = "start_treatment"
    /\ route_result' = no_route
    /\ UNCHANGED <<counter, hist, mode, road_graph, scoringVars>>

\* the route button, shown while the slot holds a patient with coordinates
RequestRoute ==
    /\ current_patient_in_treatment # None
    /\ current_patient_coords # None
    /\ session_road_graph' = store_road_graph(session_road_graph, road_graph)
    /\ LET slot == slot_after_run(heap, current_patient_in_treatment)
           coords == slot_after_run(heap, current_patient_coords)
       IN  /\ current_patient_in_treatment' = slot
           /\ current_patient_coords' = coords
           /\ IF slot # None /\ coords # None
              THEN LET found == route_request(store_road_graph(session_road_graph, road_graph),
                                              coords)
                   IN  /\ message' = found.message
                       /\ route_result' = [ret |-> found.ret, searched |-> found.searched]
              ELSE /\ message' = "no_patient"
                   /\ route_result' = no_route
    /\ op' = "route"
    /\ ret' = <<None, None>>
    /\ UNCHANGED <<heap, counter, hist, npop, mode, road_graph, scoringVars>>

Next ==
    \/ Rerun
    \/ \E m \in Modes : SelectMode(m)
    \/ \E patient_name \in Names, q \in Answers, lat \in Lats, lon \in Lons :
          SubmitDiagnosis(patient_name, q, lat, lon)
    \/ StartTreatment
    \/ RequestRoute

Spec == Init /\ [][Next]_vars

-----------------------------------------------------------------------------
(* The diagnosis scoring block on its own, over every answer combination *)

ScoringInit ==
    /\ InitQueue
    /\ InitSession
    /\ road_graph = None
    /\ answers \in Levels \X Levels \X Levels \X Levels
    /\ diagnosis = None

Diagnose ==
    /\ diagnosis = None
    /\ diagnosis' = classify(answers)
    /\ op' = "diagnose"
    /\ UNCHANGED <<heap, counter, ret, hist, npop, sessionVars, answers>>

ScoringNext == Diagnose

ScoringSpec == ScoringInit /\ [][ScoringNext]_vars

-----------------------------------------------------------------------------
(* Vocabulary of the queue claims *)

Abs(n) == IF n < 0 THEN -n ELSE n

\* the entries a heap list holds
Queued(h) == { h[i] : i \in 1..Len(h) }

\* the insertion sequence number of an entry: its key is +sequence or -sequence
SeqOf(e) == Abs(e[2])

\* the arguments the entry's insert was called with
InsertOf(e) == hist[SeqOf(e) + 1]

\* what repeated get_highest_priority_patient calls return on a copy of the list
RECURSIVE PopOrder(_)
PopOrder(h) ==
    IF h = <<>> THEN <<>>
    ELSE LET after == get_highest_priority_patient(h)
         IN  <<after.ret>> \o PopOrder(after.heap)

\* the row get_all_patients_sorted shows for a returned (patient, score) pair
RowOf(r) == [name |-> r[1].name, severity |-> r[1].severity, score |-> r[2]]

AllInsertedAs(m) == \A i \in 1..Len(hist) : hist[i].mode = m

\* this step is a get_highest_priority_patient call on a non-empty queue
PopStep == op' = "pop" /\ heap # <<>>

\* the step removed exactly the entry e and returned it
Returned(e) ==
    /\ e \in Queued(heap)
    /\ Len(heap') = Len(heap) - 1
    /\ Queued(heap') = Queued(heap) \ {e}
    /\ ret' = <<e[3], -e[1]>>

-----------------------------------------------------------------------------
\* C1: a pop on a non-empty queue removes and returns an entry whose priority
\* value is the greatest among the queued entries, returns the value exactly
\* as it was given to insert, and a pop that directly follows a pop returns a
\* value no greater than the one before.
C1_PopReturnsGreatest ==
    [][PopStep =>
         /\ \E e \in Queued(heap) :
               /\ Returned(e)
               /\ ret'[2] = InsertOf(e).score
               /\ ret'[1] = InsertOf(e).info
               /\ \A f \in Queued(heap) : InsertOf(f).score <= ret'[2]
         /\ (op = "pop" /\ ret[1] # None) => ret'[2] <= ret[2]]_vars

\* a pop returned 20 although a 10 was inserted first and entries are left
C1_Witness ==
    /\ op = "pop"
    /\ ret[1] # None
    /\ ret[2] = 20
    /\ Len(hist) = 3
    /\ hist[1].score = 10
    /\ Len(heap) = 2

\* C2: when every insert used the same mode, a pop returns, among the queued
\* entries of the greatest priority value, the one inserted first under FIFO
\* and the one inserted last under LIFO.
C2_TieBreakByMode ==
    [][PopStep =>
         \E e \in Queued(heap) :
            /\ Returned(e)
            /\ AllInsertedAs(FIFO) =>
                  \A f \in Queued(heap) : f[1] = e[1] => SeqOf(e) <= SeqOf(f)
            /\ AllInsertedAs(LIFO) =>
                  \A f \in Queued(heap) : f[1] = e[1] => SeqOf(e) >= SeqOf(f)]_vars

\* scenario D: 10, 20, 10 inserted under LIFO; 20 and the second 10 are out
C2_Witness ==
    /\ Len(hist) = 3
    /\ AllInsertedAs(LIFO)
    /\ hist[1].score = 10 /\ hist[2].score = 20 /\ hist[3].score = 10
    /\ op = "pop"
    /\ npop = 2
    /\ ret[1] # None
    /\ ret[2] = 10
    /\ Len(heap) = 1
    /\ SeqOf(heap[1]) = 0

C6_EmptyIffBalanced == is_empty(heap) <=> (Len(hist) = npop)

\* a pop on a drained queue: it returned nothing and was not counted
C6_Witness ==
    /\ op = "pop"
    /\ ret[1] = None
    /\ Len(hist) = 2
    /\ npop = 2
    /\ is_empty(heap)

\* C7: get_highest_priority_patient and peek on a queue without entries
\* return (None, None) and leave the queue as it was: still empty, counter
\* not advanced.
C7_EmptyQueueAbsent ==
    [][(op' \in {"pop", "peek"} /\ is_empty(heap)) =>
         /\ ret' = <<None, None>>
         /\ heap' = heap
         /\ is_empty(heap')
         /\ counter' = counter
         /\ npop' = npop]_vars

\* a peek on a queue that was filled and fully drained
C7_Witness ==
    /\ op = "peek"
    /\ ret = <<None, None>>
    /\ counter = 2
    /\ npop = 2
    /\ heap = <<>>

\* C8: peek leaves the queue as it was and returns the pair an immediately
\* following pop returns; a second peek returns the same pair.
C8_PeekMatchesPop ==
    [][/\ op' = "peek" =>
            /\ heap' = heap
            /\ counter' = counter
            /\ is_empty(heap') = is_empty(heap)
            /\ ret' = get_highest_priority_patient(heap').ret
            /\ ret' = peek(heap').ret
       /\ (op = "peek" /\ op' = "pop") => ret' = ret]_vars

\* a peek at a queue of three that shows an entry other than the first inserted
C8_Witness ==
    /\ op = "peek"
    /\ ret[1] # None
    /\ Len(heap) = 3
    /\ SeqOf(heap[1]) # 0
    /\ ret[2] = 20

-----------------------------------------------------------------------------
(* Claims about the page *)

\* the entry that insert number i (counted from 1) put on the heap, by the
\* mode selected at that insert
EntryOfInsert(i) ==
    <<-hist[i].score,
      IF hist[i].mode = FIFO THEN i - 1 ELSE -(i - 1),
      hist[i].info>>

\* this step is the start-treatment handler popping a non-empty queue
TreatStep == op' = "start_treatment" /\ heap # <<>>

\* C3: every queued entry keeps the key of its own insert (+sequence if that
\* insert was FIFO, -sequence if it was LIFO); selecting another mode leaves
\* the heap list, the counter and the pop order as they were; and a pop
\* returns, among the queued entries of its priority value and its own tag,
\* the first inserted if the tag is FIFO and the last inserted if it is LIFO.
C3_TieBreakFixedAtInsert ==
    /\ [](\A e \in Queued(heap) : \E i \in 1..Len(hist) : e = EntryOfInsert(i))
    /\ [][mode' # mode =>
            /\ heap' = heap
            /\ counter' = counter
            /\ PopOrder(heap') = PopOrder(heap)]_vars
    /\ [][TreatStep =>
            \E e \in Queued(heap) :
               /\ Returned(e)
               /\ \A f \in Queued(heap) :
                     (f[1] = e[1] /\ InsertOf(f).mode = InsertOf(e).mode) =>
                        IF InsertOf(e).mode = FIFO
                        THEN SeqOf(e) <= SeqOf(f)
                        ELSE SeqOf(e) >= SeqOf(f)]_vars

\* the mode was just switched over a queue of three equal-priority entries
\* inserted under both modes
C3_Witness ==
    /\ op = "select_mode"
    /\ Len(heap) = 3
    /\ heap[1][1] = heap[2][1] /\ heap[2][1] = heap[3][1]
    /\ \E e, f \in Queued(heap) : InsertOf(e).mode = FIFO /\ InsertOf(f).mode = LIFO
    /\ \E e \in Queued(heap) : InsertOf(e).mode # mode
    /\ \E e \in Queued(heap) : e[2] < 0

\* C5: the patient a pop placed in the treatment slot, and their origin
\* coordinates, are in the slot when the start-treatment action is over,
\* whatever the queue then contains, and stay there until the next pop.
C5_SlotHoldsPoppedPatient ==
    [][/\ TreatStep =>
            \E e \in Queued(heap) :
               /\ Returned(e)
               /\ current_patient_in_treatment' = e[3]
               /\ current_patient_coords' = <<e[3].lat, e[3].lon>>
       /\ (current_patient_in_treatment # None /\ op' # "start_treatment") =>
            /\ current_patient_in_treatment' = current_patient_in_treatment
            /\ current_patient_coords' = current_patient_coords]_vars

\* the connected component of a node: the nodes reached along directed edges
RECURSIVE ReachedFrom(_, _)
ReachedFrom(g, S) ==
    LET more == S \cup { e[2] : e \in { x \in g.edges : x[1] \in S } }
    IN  IF more = S THEN S ELSE ReachedFrom(g, more)

-----------------------------------------------------------------------------
(* Claims about the scoring block *)

\* the weight of each answer of each question, as a table
Weights == << <<0, 3, 7, 15>>, <<0, 4, 9, 20>>, <<0, 2, 6, 12>>, <<0, 3, 8, 18>> >>

TableScore(q) ==
    Weights[1][q[1] + 1] + Weights[2][q[2] + 1] + Weights[3][q[3] + 1] + Weights[4][q[4] + 1]

\* C9: for each of the 4x4x4x4 answer combinations the urgency score is the
\* sum of the four table weights and lies in 0..65, the category is the one
\* the thresholds 35, 20, 10, 3 select, the priority value is that category's
\* table value and does not decrease as the score grows; all-baseline gives
\* 0, mild, 1 and all-severe gives 65, very-urgent, 20.
C9_ClassifyTable ==
    diagnosis # None =>
        /\ diagnosis.score = TableScore(answers)
        /\ diagnosis.score \in 0..65
        /\ (diagnosis.level = "very_urgent") <=> (diagnosis.score >= 35)
        /\ (diagnosis.level = "urgent") <=> (diagnosis.score >= 20 /\ diagnosis.score < 35)
        /\ (diagnosis.level = "severe") <=> (diagnosis.score >= 10 /\ diagnosis.score < 20)
        /\ (diagnosis.level = "moderate") <=> (diagnosis.score >= 3 /\ diagnosis.score < 10)
        /\ (diagnosis.level = "mild") <=> (diagnosis.score < 3)
        /\ diagnosis.priority =
              (CASE diagnosis.level = "mild" -> 1
                 [] diagnosis.level = "moderate" -> 3
                 [] diagnosis.level = "severe" -> 5
                 [] diagnosis.level = "urgent" -> 10
                 [] diagnosis.level = "very_urgent" -> 20)
        /\ \A q \in Levels \X Levels \X Levels \X Levels :
              TableScore(q) <= diagnosis.score => classify(q).priority <= diagnosis.priority
        /\ answers = <<0, 0, 0, 0>> =>
              diagnosis = [score |-> 0, level |-> "mild", priority |-> 1]
        /\ answers = <<3, 3, 3, 3>> =>
              diagnosis = [score |-> 65, level |-> "very_urgent", priority |-> 20]

\* coma with severe respiratory distress alone: the score sits on the top
\* threshold
C9_Witness ==
    /\ diagnosis # None
    /\ answers = <<3, 3, 0, 0>>
    /\ diagnosis.score = 35
    /\ diagnosis.level = "very_urgent"
    /\ diagnosis.priority = 20

-----------------------------------------------------------------------------
(* Claims about the sequence numbers and keys *)

\* C11: insert stamps the new entry with the counter's value, which is
\* greater than the sequence number of every entry queued before, and then
\* advances the counter by exactly one; pop, peek and snapshot leave the
\* counter alone, also when the queue becomes empty; the counter never
\* decreases and always equals the number of inserts so far.
C11_SequenceNeverReused ==
    /\ [](counter = Len(hist))
    /\ [][counter' >= counter]_vars
    /\ [][op' = "insert" =>
            /\ counter' = counter + 1
            /\ \A f \in Queued(heap) : SeqOf(f) < counter
            /\ \E e \in Queued(heap') :
                  /\ e \notin Queued(heap)
                  /\ Queued(heap') = Queued(heap) \cup {e}
                  /\ SeqOf(e) = counter]_vars
    /\ [][op' \in {"pop", "peek", "snapshot"} => counter' = counter]_vars

\* an insert into a queue that was filled and drained before: the new entry
\* carries sequence number 2, not 0
C11_Witness ==
    /\ op = "insert"
    /\ npop = 2
    /\ counter = 3
    /\ Len(heap) = 1
    /\ SeqOf(heap[1]) = 2
\* the comparison of two entries is not settled by score and key and goes on
\* to the patient records
FallsThrough(a, b) == a[1] = b[1] /\ a[2] = b[2]

\* C12: no two queued entries have the same (adjusted score, key) pair, so
\* no comparison made by heappush, heappop or sorted goes on to the patient
\* records; this includes mixed-mode queues and the entry of the first
\* insert, whose key is 0 under either mode.
C12_KeysDistinct ==
    \A i, j \in 1..Len(heap) : i # j => ~FallsThrough(heap[i], heap[j])

\* three entries of one priority value, inserted LIFO, FIFO, LIFO: the first
\* has key 0, the others 1 and -2
C12_Witness ==
    /\ Len(heap) = 3
    /\ Len(hist) = 3
    /\ hist[1].mode = LIFO /\ hist[2].mode = FIFO /\ hist[3].mode = LIFO
    /\ \A e \in Queued(heap) : e[1] = heap[1][1]
    /\ { e[2] : e \in Queued(heap) } = {0, 1, -2}
\* C13: while an entry inserted under LIFO is queued, no entry of the same
\* priority value inserted under FIFO is popped, whichever of the two was
\* inserted first.
C13_LifoBeforeFifo ==
    [][PopStep =>
         \E e \in Queued(heap) :
            /\ Returned(e)
            /\ InsertOf(e).mode = FIFO =>
                  \A f \in Queued(heap) : f[1] = e[1] => InsertOf(f).mode # LIFO]_vars

\* three entries of one priority value inserted LIFO, FIFO, FIFO: the pop
\* took the LIFO entry, the oldest of the three, and left the FIFO ones
C13_Witness ==
    /\ op = "pop"
    /\ npop = 1
    /\ Len(hist) = 3
    /\ hist[1].mode = LIFO /\ hist[2].mode = FIFO /\ hist[3].mode = FIFO
    /\ hist[1].score = hist[2].score /\ hist[2].score = hist[3].score
    /\ { SeqOf(e) : e \in Queued(heap) } = {1, 2}

====
